---------------------------- MODULE Spec2Model ----------------------------
(***************************************************************************)
(* A model of WatchHeroGenerator (garmin_graphics_generator/core.py): the  *)
(* fluent configuration setters and the hero composition run, that is the  *)
(* auto-scale heuristic, the random transform pipeline, the canvas-fit     *)
(* clamp and the collision-aware placement search; and the file side of   *)
(* the pipeline, that is the input paths, the loading of the images and    *)
(* the naming of the resized output files.                                 *)
(*                                                                         *)
(* An image is its size <<w, h>>, a rectangle is <<x, y, w, h>>, a path is *)
(* the record of its directory, stem and extension.  Pixels                *)
(* are not modelled.  Python floats are modelled by exact rational         *)
(* arithmetic on integers; the input sets below are chosen so that the     *)
(* exact result and the IEEE double result agree on them.                  *)
(***************************************************************************)
EXTENDS Integers, Sequences, FiniteSets, TLC

VARIABLES
    hero_size,              \* self._hero_size, <<width, height>>
    size_variation,         \* self._size_variation
    orientation_variation,  \* self._orientation_variation
    max_overlap,            \* self._max_overlap
    processed_images,       \* self._processed_images, a sequence of sizes
    pc,                     \* position of generate_hero_composition
    hero_image,             \* the canvas: "none", "open" or "saved"
    images_to_place,        \* the shuffled copy, items not yet visited
    base_scale,             \* base_scale of the run (square of the value)
    placed_rects,           \* placed_rects of the run
    final_image,            \* final_image of the current loop iteration
    fit_applied,            \* whether the hard cap branch resized final_image
    attempts,               \* iterations of the search loop already rejected
    warnings,               \* "too crowded" warnings logged in the run
    check_call,             \* a direct call of _check_collision and its result
    overlap_call,           \* a direct call of _calculate_overlap_percentage
    input_paths,            \* self._input_paths, a sequence of paths
    loaded_from,            \* for each processed image, the path it was read from
    resized_files,          \* the files saved by generate_resized_files
    samples                 \* candidate positions sampled in the run

vars == <<hero_size, size_variation, orientation_variation, max_overlap,
          processed_images, pc, hero_image, images_to_place, base_scale,
          placed_rects, final_image, fit_applied, attempts, warnings,
          check_call, overlap_call, input_paths, loaded_from, resized_files,
          samples>>

config == <<hero_size, size_variation, orientation_variation, max_overlap>>

run == <<pc, hero_image, images_to_place, base_scale, placed_rects,
         final_image, fit_applied, attempts, warnings>>

files == <<input_paths, loaded_from, resized_files>>

-----------------------------------------------------------------------------
(* Bounds and input sets of the model.                                     *)

\* the longest list of input images
MaxImages == 2

\* the longest placed list handed to a direct _check_collision call
MaxPlaced == 2

\* sizes of the loaded input images
ImageSizes == {<<1, 1>>, <<2, 2>>, <<2, 1>>}

\* canvas sizes given to set_hero_size
HeroSizes == {<<2, 2>>, <<3, 2>>}

\* the height of the canvas of SpecTall
TallHeight == 14

\* canvas sizes of SpecTall
TallHeroSizes == {<<1, TallHeight>>}

\* sizes of the loaded input images in SpecTall
TallImageSizes == {<<1, 1>>, <<2, 1>>}

\* canvas sizes in SpecSearch
SearchHeroSizes == {<<2, 2>>}

\* sizes of the loaded input images in SpecSearch
SearchImageSizes == {<<1, 1>>}

\* arguments given to set_variations in SpecTall
TallVariationInputs == {<<0, 0>>, <<15, 120>>}

\* arguments given to set_variations: <<size_var, orientation_var>>
VariationInputs == {<<0, 0>>, <<5, 45>>, <<15, 120>>, <<-3, -10>>}

\* arguments given to set_max_overlap
OverlapInputs == {-5, 0, 50, 100, 150}

\* the longest list of input images of SpecCrowded
MaxCrowded == 3

\* arguments given to set_max_overlap before a direct _check_collision call
CollisionOverlapInputs == {-5, 0, 9, 10, 50, 59, 60, 99, 100, 150}

\* rectangles of direct _check_collision calls: those of test_collision_logic
\* at a tenth of their size, one touching, one inside, one without area
TestRects == {<<0, 0, 10, 10>>, <<20, 0, 10, 10>>, <<9, 0, 10, 10>>,
              <<4, 0, 10, 10>>, <<10, 0, 10, 10>>, <<2, 2, 3, 3>>,
              <<0, 0, 0, 5>>}

\* rectangles of direct _calculate_overlap_percentage calls: the above and
\* two that contain or are contained in several of them
OverlapRects == TestRects \cup {<<0, 0, 20, 10>>, <<12, 3, 1, 1>>}

\* max_attempts of _find_valid_position
max_attempts == 100

\* the input path <dir>/watch<k><ext>
Path(dir, k, ext) == [dir |-> dir, stem |-> k, ext |-> ext]

\* the k input paths in/watch1.jpg .. in/watch<k>.jpg
PathList(k) == [i \in 1..k |-> Path("in", i, ".jpg")]

\* what open, remove or Image.open give for a path that cannot be loaded
Unreadable == <<>>

\* self._resized_width and self._resized_suffix, as the command line
\* sets them by default
resized_width == 200

resized_suffix == "_resized"

EXTENSION_PNG == ".png"

\* input paths of SpecResized: two files of one directory and a file of
\* another directory with the stem of the first
ResizedPaths == {Path("in", 1, ".jpg"), Path("in", 2, ".jpg"),
                 Path("old", 1, ".png")}

\* what a path of SpecResized loads to
ResizedOutcomes == {<<1, 1>>, <<2, 1>>, Unreadable}

-----------------------------------------------------------------------------
(* Arithmetic helpers.                                                     *)

Min(a, b) == IF a <= b THEN a ELSE b

Max(a, b) == IF a >= b THEN a ELSE b

\* floor(a / b) for b > 0, also for negative a
Floor(a, b) == IF a >= 0 THEN a \div b ELSE -(((-a) + b - 1) \div b)

\* ceil(a / b) for b > 0, also for negative a
Ceil(a, b) == -Floor(-a, b)

-----------------------------------------------------------------------------
(* Geometry: _calculate_overlap_percentage and _check_collision.           *)

\* a variant of _calculate_overlap_percentage that divides by the larger
\* of the two areas
overlap_relative_to_larger(rect1, rect2) ==
    LET inter_x == Max(rect1[1], rect2[1])
        inter_y == Max(rect1[2], rect2[2])
        inter_w == Min(rect1[1] + rect1[3], rect2[1] + rect2[3]) - inter_x
        inter_h == Min(rect1[2] + rect1[4], rect2[2] + rect2[4]) - inter_y
        max_area == Max(rect1[3] * rect1[4], rect2[3] * rect2[4])
    IN  IF inter_w <= 0 \/ inter_h <= 0 THEN <<0, 1>>
        ELSE IF max_area = 0 THEN <<0, 1>>
        ELSE <<inter_w * inter_h * 100, max_area>>

\* a variant of _calculate_overlap_percentage that divides by the area of
\* its first argument
overlap_relative_to_first(rect1, rect2) ==
    LET inter_x == Max(rect1[1], rect2[1])
        inter_y == Max(rect1[2], rect2[2])
        inter_w == Min(rect1[1] + rect1[3], rect2[1] + rect2[3]) - inter_x
        inter_h == Min(rect1[2] + rect1[4], rect2[2] + rect2[4]) - inter_y
        area1 == rect1[3] * rect1[4]
    IN  IF inter_w <= 0 \/ inter_h <= 0 THEN <<0, 1>>
        ELSE IF area1 = 0 THEN <<0, 1>>
        ELSE <<inter_w * inter_h * 100, area1>>

\* The overlap percentage as the fraction <<numerator, denominator>>:
\* (intersection_area / min_area) * 100.0, or 0.0.
_calculate_overlap_percentage(rect1, rect2) ==
    LET inter_x == Max(rect1[1], rect2[1])
        inter_y == Max(rect1[2], rect2[2])
        inter_w == Min(rect1[1] + rect1[3], rect2[1] + rect2[3]) - inter_x
        inter_h == Min(rect1[2] + rect1[4], rect2[2] + rect2[4]) - inter_y
        area1 == rect1[3] * rect1[4]
        area2 == rect2[3] * rect2[4]
        min_area == Min(area1, area2)
    IN  IF inter_w <= 0 \/ inter_h <= 0 THEN <<0, 1>>
        ELSE IF min_area = 0 THEN <<0, 1>>
        ELSE <<inter_w * inter_h * 100, min_area>>

\* overlap_pct > threshold, for a fraction with a positive denominator
PctGreater(overlap_pct, threshold) ==
    overlap_pct[1] > threshold * overlap_pct[2]

\* the for loop of _check_collision over placed_rects from index k on
RECURSIVE CollisionLoop(_, _, _, _)
CollisionLoop(new_rect, placed, mo, k) ==
    IF k > Len(placed) THEN FALSE
    ELSE LET overlap_pct == _calculate_overlap_percentage(new_rect, placed[k])
         IN  IF mo = 0 /\ PctGreater(overlap_pct, 0) THEN TRUE
             ELSE IF PctGreater(overlap_pct, mo) THEN TRUE
             ELSE CollisionLoop(new_rect, placed, mo, k + 1)

\* a variant of _check_collision that rejects an overlap equal to the
\* allowance
check_collision_inclusive(new_rect, placed, mo) ==
    /\ mo < 100
    /\ \E k \in 1..Len(placed) :
           LET overlap_pct == _calculate_overlap_percentage(new_rect, placed[k])
           IN  \/ (mo = 0 /\ PctGreater(overlap_pct, 0))
               \/ overlap_pct[1] >= mo * overlap_pct[2]

_check_collision(new_rect, placed, mo) ==
    IF mo >= 100 THEN FALSE
    ELSE CollisionLoop(new_rect, placed, mo, 1)

-----------------------------------------------------------------------------
(* The auto-scale heuristic.                                               *)

\* The value returned is a float; the model keeps its square as the
\* fraction <<numerator, denominator>>: 1.0 is <<1, 1>>, and
\* sqrt(canvas_area * 0.6 / num_images) is <<6 * area, 10 * num_images>>.
_calculate_auto_scale_factor(num_images, hero) ==
    IF num_images <= 1 THEN <<1, 1>>
    ELSE <<6 * hero[1] * hero[2], 10 * num_images>>

\* int(dim * ratio) with ratio = target_dim_heuristic / current_max
IntOfScaled(dim, current_max, target_sq) ==
    CHOOSE k \in 0..dim :
        /\ k * k * current_max * current_max * target_sq[2]
               <= dim * dim * target_sq[1]
        /\ (k + 1) * (k + 1) * current_max * current_max * target_sq[2]
               > dim * dim * target_sq[1]

\* step 1 of _prepare_image_for_canvas: the size handed to resize, or the
\* size of base_image when the branch is not taken
HeuristicSize(base_image, target_sq) ==
    LET current_max == Max(base_image[1], base_image[2])
    IN  IF /\ target_sq[1] > 0
           /\ target_sq[1] < current_max * current_max * target_sq[2]
        THEN <<IntOfScaled(base_image[1], current_max, target_sq),
               IntOfScaled(base_image[2], current_max, target_sq)>>
        ELSE base_image

\* Image.resize raises ValueError ("height and width must be > 0") for a
\* size with a side below 1
ResizeRaises(size) == size[1] < 1 \/ size[2] < 1

-----------------------------------------------------------------------------
(* The random transform pipeline.                                          *)

\* Angles the model draws: <<degrees (rounded up), 5*|cos|, 5*|sin|>>.
\* 37 and 53 stand for atan(3/4) and atan(4/3).
Angles == {<<0, 5, 0>>, <<37, 4, 3>>, <<53, 3, 4>>, <<90, 0, 5>>}

\* random.uniform(-v, v) for v > 0, else angle = 0
AngleChoices(ov) ==
    IF ov > 0 THEN {a \in Angles : a[1] <= ov} ELSE {<<0, 5, 0>>}

\* Image.rotate(angle, expand=True): the size of the result.  0 degrees
\* copies, 90 degrees transposes, otherwise the bounding box of the
\* corners turned about the centre (w/2, h/2):
\*   nw = ceil(max(xx)) - floor(min(xx)),  nh likewise.
Rotate(size, a) ==
    LET w == size[1]
        h == size[2]
        ex == a[2] * w + a[3] * h
        ey == a[3] * w + a[2] * h
    IN  IF a[1] = 0 THEN size
        ELSE IF a[1] = 90 THEN <<h, w>>
        ELSE <<Ceil(5 * w + ex, 10) - Floor(5 * w - ex, 10),
               Ceil(5 * h + ey, 10) - Floor(5 * h - ey, 10)>>

\* Scale factors in twentieths: max_scale = 1.0 + sv * 0.2 and
\* min_scale = max(0.2, 1.0 - sv * 0.05); the model draws the two ends of
\* random.uniform(min_scale, max_scale) and 1.0.
ScaleChoices(sv) ==
    IF sv > 0 THEN {Max(4, 20 - sv), 20, 20 + 4 * sv} ELSE {20}

\* a variant of Scale without the test new_w > 0 and new_h > 0
ScaleUnguarded(size, scale20) ==
    IF scale20 # 20
    THEN <<Floor(size[1] * scale20, 20), Floor(size[2] * scale20, 20)>>
    ELSE size

\* step 2 of _apply_random_transforms: resize by scale_factor unless a
\* side would become 0
Scale(size, scale20) ==
    LET new_w == Floor(size[1] * scale20, 20)
        new_h == Floor(size[2] * scale20, 20)
    IN  IF scale20 # 20 /\ new_w > 0 /\ new_h > 0 THEN <<new_w, new_h>>
        ELSE size

_apply_random_transforms(image, a, scale20) == Scale(Rotate(image, a), scale20)

-----------------------------------------------------------------------------
(* The canvas-fit clamp, step 3 of _prepare_image_for_canvas.              *)

NeedsFit(size, hero) == size[1] > hero[1] \/ size[2] > hero[2]

\* a variant of FitToCanvas that takes the larger of the two ratios
FitByLargerRatio(size, hero) ==
    LET img_w == size[1]
        img_h == size[2]
        byWidth == hero[1] * img_h >= hero[2] * img_w
        num == IF byWidth THEN hero[1] ELSE hero[2]
        den == IF byWidth THEN img_w ELSE img_h
    IN  IF NeedsFit(size, hero)
        THEN <<Max(1, Floor(img_w * num, den)), Max(1, Floor(img_h * num, den))>>
        ELSE size

\* the hard cap without its floor of one pixel: each side becomes
\* int(side * ratio)
FitWithoutFloor(size, hero) ==
    LET img_w == size[1]
        img_h == size[2]
        byWidth == hero[1] * img_h <= hero[2] * img_w
        num == IF byWidth THEN hero[1] ELSE hero[2]
        den == IF byWidth THEN img_w ELSE img_h
    IN  IF NeedsFit(size, hero)
        THEN <<Floor(img_w * num, den), Floor(img_h * num, den)>>
        ELSE size

\* ratio = min(canvas_w / img_w, canvas_h / img_h); each side becomes
\* max(1, int(side * ratio))
FitToCanvas(size, hero) ==
    LET img_w == size[1]
        img_h == size[2]
        byWidth == hero[1] * img_h <= hero[2] * img_w
        num == IF byWidth THEN hero[1] ELSE hero[2]
        den == IF byWidth THEN img_w ELSE img_h
    IN  IF NeedsFit(size, hero)
        THEN <<Max(1, Floor(img_w * num, den)), Max(1, Floor(img_h * num, den))>>
        ELSE size

-----------------------------------------------------------------------------
(* State after construction, and the fluent setters.                       *)

NoImage == <<0, 0>>

NoCall == [called |-> FALSE]

\* every order random.shuffle can leave a list in
Shuffles(list) ==
    {[k \in 1..Len(list) |-> list[p[k]]] : p \in Permutations(1..Len(list))}

\* lists of at most n elements of S
ListsUpTo(S, n) == UNION {[1..k -> S] : k \in 0..n}

\* __init__: the defaults are those of the command line (overlap 0, no
\* variations); the canvas is one of the canvas sizes heroes
InitWith(heroes) ==
    /\ hero_size \in heroes
    /\ size_variation = 0
    /\ orientation_variation = 0
    /\ max_overlap = 0
    /\ processed_images = <<>>
    /\ pc = "idle"
    /\ hero_image = "none"
    /\ images_to_place = <<>>
    /\ base_scale = <<1, 1>>
    /\ placed_rects = <<>>
    /\ final_image = NoImage
    /\ fit_applied = FALSE
    /\ attempts = 0
    /\ warnings = 0
    /\ check_call = NoCall
    /\ overlap_call = NoCall
    /\ input_paths = <<>>
    /\ loaded_from = <<>>
    /\ resized_files = <<>>
    /\ samples = 0

Init == InitWith(HeroSizes)

set_hero_size(width, height) ==
    /\ pc = "idle"
    /\ hero_size' = <<width, height>>
    /\ UNCHANGED <<size_variation, orientation_variation, max_overlap,
                   processed_images, run,
                   check_call, overlap_call, files, samples>>

set_variations(size_var, orientation_var) ==
    /\ pc = "idle"
    /\ size_variation' = size_var
    /\ orientation_variation' = orientation_var
    /\ UNCHANGED <<hero_size, max_overlap, processed_images, run,
                   check_call, overlap_call, files, samples>>

\* a variant of set_max_overlap that stores its argument as it is
set_max_overlap_unclamped(overlap_percent) ==
    /\ pc = "idle"
    /\ max_overlap' = overlap_percent
    /\ UNCHANGED <<hero_size, size_variation, orientation_variation,
                   processed_images, run,
                   check_call, overlap_call, files, samples>>

set_max_overlap(overlap_percent) ==
    /\ pc = "idle"
    /\ max_overlap' = Max(0, Min(100, overlap_percent))
    /\ UNCHANGED <<hero_size, size_variation, orientation_variation,
                   processed_images, run,
                   check_call, overlap_call, files, samples>>

set_input_paths(file_paths) ==
    /\ pc = "idle"
    /\ input_paths' = file_paths
    /\ UNCHANGED <<config, processed_images, run, check_call, overlap_call,
                   loaded_from, resized_files, samples>>

\* the for loop of process_input_images from index k on: the pairs
\* <<path, image>> of the paths that load, in input order; a path whose
\* outcome is Unreadable raises IOError or OSError, is logged and left out
RECURSIVE LoadLoop(_, _, _)
LoadLoop(paths, outcomes, k) ==
    IF k > Len(paths) THEN <<>>
    ELSE IF outcomes[k] = Unreadable THEN LoadLoop(paths, outcomes, k + 1)
    ELSE <<(<<paths[k], outcomes[k]>>)>> \o LoadLoop(paths, outcomes, k + 1)

\* process_input_images: outcomes[k] is what the file system and the
\* decoder give for input_paths[k], an image or Unreadable
process_input_images(outcomes) ==
    /\ pc = "idle"
    /\ Len(outcomes) = Len(input_paths)
    /\ LET loaded == LoadLoop(input_paths, outcomes, 1)
       IN  /\ processed_images' = [j \in 1..Len(loaded) |-> loaded[j][2]]
           /\ loaded_from' = [j \in 1..Len(loaded) |-> loaded[j][1]]
    /\ UNCHANGED <<config, run, check_call, overlap_call, input_paths,
                   resized_files, samples>>

-----------------------------------------------------------------------------
(* generate_resized_files.                                                 *)

\* os.path.basename: the path without its directory
basename(path) == [stem |-> path.stem, ext |-> path.ext]

\* os.path.splitext: the file name split into <<name, extension>>
splitext(filename) == <<filename.stem, filename.ext>>

\* f"{name}{self._resized_suffix}{EXTENSION_PNG}"
output_filename(name) ==
    [stem |-> name, suffix |-> resized_suffix, ext |-> EXTENSION_PNG]

\* int(self._resized_width * (image.height / image.width))
new_height(image) == Floor(resized_width * image[2], image[1])

\* the body of the loop of generate_resized_files raises at index: there
\* is no input path at that index, or the resize is to a side below 1
ResizedRaises(index) ==
    \/ index > Len(input_paths)
    \/ ResizeRaises(<<resized_width, new_height(processed_images[index])>>)

\* the file the loop saves at index: its name comes from the input path at
\* that index, its content from the processed image at that index, which
\* was loaded from the path source
ResizedFile(index) ==
    LET original_path == input_paths[index]
        filename == basename(original_path)
        name == splitext(filename)[1]
        image == processed_images[index]
    IN  [filename |-> output_filename(name),
         size |-> <<resized_width, new_height(image)>>,
         image |-> image,
         source |-> loaded_from[index]]

\* generate_resized_files: nothing on an empty list, else one file per
\* processed image up to the first index that raises
generate_resized_files ==
    /\ pc = "idle"
    /\ IF processed_images = <<>>
       THEN UNCHANGED <<pc, resized_files>>
       ELSE LET indices == 1..Len(processed_images)
                raising == {k \in indices : ResizedRaises(k)}
                last == IF raising = {} THEN Len(processed_images)
                        ELSE (CHOOSE k \in raising :
                                  \A j \in raising : k <= j) - 1
            IN  /\ resized_files' = [k \in 1..last |-> ResizedFile(k)]
                /\ pc' = IF raising = {} THEN pc ELSE "raised"
    /\ UNCHANGED <<config, processed_images, hero_image, images_to_place,
                   base_scale, placed_rects, final_image, fit_applied,
                   attempts, warnings, check_call, overlap_call, input_paths,
                   loaded_from, samples>>

-----------------------------------------------------------------------------
(* generate_hero_composition.                                              *)

\* a variant of the entry without the guard on an empty list
generate_without_empty_guard ==
    /\ pc = "idle"
    /\ pc' = "loop"
    /\ hero_image' = "open"
    /\ images_to_place' \in Shuffles(processed_images)
    /\ base_scale' =
           _calculate_auto_scale_factor(Len(processed_images), hero_size)
    /\ placed_rects' = <<>>
    /\ UNCHANGED <<config, processed_images, final_image, fit_applied,
                   attempts, warnings,
                   check_call, overlap_call, files, samples>>

\* entry: the guard on an empty list, else the canvas, the shuffled copy,
\* base_scale and the empty placed list
generate_hero_composition ==
    /\ pc = "idle"
    /\ IF processed_images = <<>>
       THEN /\ pc' = "returned"
            /\ UNCHANGED <<hero_image, images_to_place, base_scale,
                           placed_rects>>
       ELSE /\ pc' = "loop"
            /\ hero_image' = "open"
            /\ images_to_place' \in Shuffles(processed_images)
            /\ base_scale' =
                   _calculate_auto_scale_factor(Len(processed_images), hero_size)
            /\ placed_rects' = <<>>
    /\ UNCHANGED <<config, processed_images, final_image, fit_applied,
                   attempts, warnings,
                   check_call, overlap_call, files, samples>>

\* loop body, first half: _prepare_image_for_canvas on the next image.
\* The resize of step 1 raises on a side of 0 and the exception leaves
\* generate_hero_composition.
PrepareImage ==
    /\ pc = "loop"
    /\ images_to_place # <<>>
    /\ LET base_image == Head(images_to_place)
           heuristic == HeuristicSize(base_image, base_scale)
       IN  IF heuristic # base_image /\ ResizeRaises(heuristic)
           THEN /\ pc' = "raised"
                /\ UNCHANGED <<final_image, fit_applied, attempts>>
           ELSE \E a \in AngleChoices(orientation_variation),
                   scale20 \in ScaleChoices(size_variation) :
                    LET transformed ==
                            _apply_random_transforms(heuristic, a, scale20)
                    IN  /\ final_image' = FitToCanvas(transformed, hero_size)
                        /\ fit_applied' = NeedsFit(transformed, hero_size)
                        /\ attempts' = 0
                        /\ pc' = "search"
    /\ UNCHANGED <<config, processed_images, hero_image, images_to_place,
                   base_scale, placed_rects, warnings,
                   check_call, overlap_call, files, samples>>

\* a variant of the iteration whose loop is not bounded by max_attempts
FindPositionStepUncapped ==
    /\ pc = "search"
    /\ LET img_w == final_image[1]
           img_h == final_image[2]
           max_x == Max(0, hero_size[1] - img_w)
           max_y == Max(0, hero_size[2] - img_h)
       IN  \E pos_x \in 0..max_x, pos_y \in 0..max_y :
               LET new_rect == <<pos_x, pos_y, img_w, img_h>>
               IN  IF ~_check_collision(new_rect, placed_rects, max_overlap)
                   THEN /\ placed_rects' = Append(placed_rects, new_rect)
                        /\ images_to_place' = Tail(images_to_place)
                        /\ attempts' = 0
                        /\ pc' = "loop"
                   ELSE /\ attempts' = attempts + 1
                        /\ UNCHANGED <<placed_rects, images_to_place, pc>>
    /\ UNCHANGED <<config, processed_images, hero_image, base_scale,
                   final_image, fit_applied, warnings, check_call,
                   overlap_call, files>>

\* one iteration of the for loop of _find_valid_position, and on success
\* the paste and the append of the driver
FindPositionStep ==
    /\ pc = "search"
    /\ attempts < max_attempts
    /\ LET img_w == final_image[1]
           img_h == final_image[2]
           max_x == Max(0, hero_size[1] - img_w)
           max_y == Max(0, hero_size[2] - img_h)
       IN  \E pos_x \in 0..max_x, pos_y \in 0..max_y :
               LET new_rect == <<pos_x, pos_y, img_w, img_h>>
               IN  IF ~_check_collision(new_rect, placed_rects, max_overlap)
                   THEN /\ placed_rects' = Append(placed_rects, new_rect)
                        /\ images_to_place' = Tail(images_to_place)
                        /\ attempts' = 0
                        /\ pc' = "loop"
                   ELSE /\ attempts' = attempts + 1
                        /\ UNCHANGED <<placed_rects, images_to_place, pc>>
    /\ UNCHANGED <<config, processed_images, hero_image, base_scale,
                   final_image, fit_applied, warnings, check_call,
                   overlap_call, files>>

\* the iteration, with the samples of the run left uncounted
SamplePosition == FindPositionStep /\ UNCHANGED samples

\* the iteration, with the sample it draws counted
SamplePositionCounted == FindPositionStep /\ samples' = samples + 1

\* _find_valid_position returns None: the driver logs the warning and
\* goes on with the next image
PlacementFailed ==
    /\ pc = "search"
    /\ attempts = max_attempts
    /\ warnings' = warnings + 1
    /\ images_to_place' = Tail(images_to_place)
    /\ attempts' = 0
    /\ pc' = "loop"
    /\ UNCHANGED <<config, processed_images, hero_image, base_scale,
                   placed_rects, final_image, fit_applied,
                   check_call, overlap_call, files, samples>>

\* after the loop: hero_image.save and return
SaveHero ==
    /\ pc = "loop"
    /\ images_to_place = <<>>
    /\ hero_image' = "saved"
    /\ pc' = "returned"
    /\ UNCHANGED <<config, processed_images, images_to_place, base_scale,
                   placed_rects, final_image, fit_applied, attempts, warnings,
                   check_call, overlap_call, files, samples>>

\* a direct call of _check_collision, as the unit tests make it
CallCheckCollision(new_rect, placed) ==
    /\ pc = "idle"
    /\ ~check_call.called
    /\ check_call' = [called |-> TRUE, new_rect |-> new_rect,
                      placed |-> placed, max_overlap |-> max_overlap,
                      result |-> _check_collision(new_rect, placed, max_overlap)]
    /\ UNCHANGED <<config, processed_images, run, overlap_call, files, samples>>

\* a direct call of _calculate_overlap_percentage
CallOverlapPercentage(rect1, rect2) ==
    /\ pc = "idle"
    /\ ~overlap_call.called
    /\ overlap_call' = [called |-> TRUE, rect1 |-> rect1, rect2 |-> rect2,
                        result |-> _calculate_overlap_percentage(rect1, rect2)]
    /\ UNCHANGED <<config, processed_images, run, check_call, files, samples>>

\* the steps of a generator given canvas sizes from heroes, variations
\* from variations and at most n input paths, set before the images are
\* loaded as by the command line, which all load to images with sizes from
\* sizes
NextWith(heroes, variations, sizes, n) ==
    \/ \E s \in heroes : set_hero_size(s[1], s[2])
    \/ \E v \in variations : set_variations(v[1], v[2])
    \/ \E p \in OverlapInputs : set_max_overlap(p)
    \/ \E k \in 0..n : processed_images = <<>> /\ set_input_paths(PathList(k))
    \/ \E outcomes \in [1..Len(input_paths) -> sizes] :
           process_input_images(outcomes)
    \/ generate_hero_composition
    \/ PrepareImage
    \/ SamplePosition
    \/ PlacementFailed
    \/ SaveHero

Next == NextWith(HeroSizes, VariationInputs, ImageSizes, MaxImages)

Spec == Init /\ [][Next]_vars

\* the same generator fed one more image, to crowd the canvas
NextCrowded == NextWith(HeroSizes, VariationInputs, ImageSizes, MaxCrowded)

SpecCrowded == Init /\ [][NextCrowded]_vars

\* the same generator on a canvas one pixel wide, large enough for the
\* heuristic to let a 2x1 image of two through, which the hard cap then
\* has to shrink
InitTall == InitWith(TallHeroSizes)

NextTall == NextWith(TallHeroSizes, TallVariationInputs, TallImageSizes, MaxImages)

SpecTall == InitTall /\ [][NextTall]_vars

\* the composition run with its samples counted: at most MaxImages
\* input paths, which load to images of one pixel, are composed on a
\* canvas of four pixels with the default allowance 0 and without
\* variations.  Once called, generate_hero_composition runs its loop to
\* the end.
NextSearch ==
    \/ \E k \in 0..MaxImages :
           processed_images = <<>> /\ set_input_paths(PathList(k))
    \/ \E outcomes \in [1..Len(input_paths) -> SearchImageSizes] :
           process_input_images(outcomes)
    \/ generate_hero_composition
    \/ PrepareImage
    \/ SamplePositionCounted
    \/ PlacementFailed
    \/ SaveHero

\* the steps inside generate_hero_composition, of which at most one kind
\* is enabled at a time
RunStep == PrepareImage \/ SamplePositionCounted \/ PlacementFailed \/ SaveHero

InitSearch == InitWith(SearchHeroSizes)

SpecSearch == InitSearch /\ [][NextSearch]_vars /\ WF_vars(RunStep)

\* the file side of the pipeline, in the order of the command line: at
\* most MaxImages input paths are set, the images are loaded, some paths
\* failing to load, and the resized files are generated
NextResized ==
    \/ \E paths \in ListsUpTo(ResizedPaths, MaxImages) :
           /\ processed_images = <<>>
           /\ resized_files = <<>>
           /\ set_input_paths(paths)
    \/ \E outcomes \in [1..Len(input_paths) -> ResizedOutcomes] :
           /\ resized_files = <<>>
           /\ process_input_images(outcomes)
    \/ generate_resized_files

SpecResized == Init /\ [][NextResized]_vars

\* _check_collision alone, as in test_collision_logic: the allowance is
\* set, then the function is called once on a rectangle and a placed list
NextCollision ==
    \/ \E p \in CollisionOverlapInputs :
           ~check_call.called /\ set_max_overlap(p)
    \/ \E new_rect \in TestRects, placed \in ListsUpTo(TestRects, MaxPlaced) :
           CallCheckCollision(new_rect, placed)

SpecCollision == Init /\ [][NextCollision]_vars

\* _calculate_overlap_percentage alone, called once on two rectangles
NextOverlap ==
    \E rect1 \in OverlapRects, rect2 \in OverlapRects :
        CallOverlapPercentage(rect1, rect2)

SpecOverlap == Init /\ [][NextOverlap]_vars

-----------------------------------------------------------------------------
(* Rectangles as sets of unit cells, for stating the properties without    *)
(* the arithmetic of _calculate_overlap_percentage.                        *)

Cells(r) == {<<x, y>> : x \in r[1]..(r[1] + r[3] - 1),
                        y \in r[2]..(r[2] + r[4] - 1)}

Area(r) == Cardinality(Cells(r))

SharedArea(a, b) == Cardinality(Cells(a) \cap Cells(b))

\* the shared area is at most pct percent of the smaller of the two areas
OverlapWithin(a, b, pct) ==
    100 * SharedArea(a, b) <= pct * Min(Area(a), Area(b))

\* rectangle a has area and every cell of b is a cell of a
Contains(a, b) == Cells(a) # {} /\ Cells(b) # {} /\ Cells(b) \subseteq Cells(a)

\* the run has ended, by return or by an exception
Ended == pc \in {"returned", "raised"}

-----------------------------------------------------------------------------
(* C1: while max_overlap < 100, any two placed rectangles overlap by at    *)
(* most max_overlap percent of the smaller one's area; with max_overlap 0  *)
(* they share no area.                                                     *)
Thm_C1 ==
    max_overlap < 100 =>
        \A j, k \in 1..Len(placed_rects) :
            j < k => OverlapWithin(placed_rects[j], placed_rects[k], max_overlap)

\* two rectangles were placed that share area, within the allowance
Wit_C1 ==
    /\ max_overlap = 50
    /\ Len(placed_rects) = 2
    /\ SharedArea(placed_rects[1], placed_rects[2]) > 0

(* C2: every placed rectangle lies inside the canvas.                      *)
Thm_C2 ==
    \A k \in 1..Len(placed_rects) :
        LET r == placed_rects[k]
        IN  /\ 0 <= r[1]
            /\ 0 <= r[2]
            /\ r[1] + r[3] <= hero_size[1]
            /\ r[2] + r[4] <= hero_size[2]

\* an image that exceeded the canvas before the hard cap was placed last
Wit_C2 ==
    /\ pc = "loop"
    /\ fit_applied
    /\ warnings = 0
    /\ Len(placed_rects) >= 1

CE_C4 ==
    ( /\ Len(processed_images) = 1
      /\ size_variation = 0
      /\ orientation_variation = 0
      /\ Len(placed_rects) = 1 )
    => ( processed_images[1][1] <= hero_size[1]
         /\ processed_images[1][2] <= hero_size[2]
         => /\ placed_rects[1][3] = processed_images[1][1]
            /\ placed_rects[1][4] = processed_images[1][2] )

CE_C6 ==
    (max_overlap = 100 /\ Ended) =>
        (Len(placed_rects) = Len(processed_images) /\ warnings = 0)

(* C7, as claimed: after a placement failure the run still visits every    *)
(* remaining object and saves the canvas, each object placed or skipped    *)
(* exactly once.                                                           *)
CE_C7 ==
    (warnings > 0 /\ Ended) =>
        /\ hero_image = "saved"
        /\ Len(placed_rects) + warnings = Len(processed_images)

(* C8, as claimed: the variations the transform pipeline reads are within  *)
(* [0,10] and [0,90].                                                      *)
CE_C8 ==
    pc = "search" =>
        (size_variation \in 0..10 /\ orientation_variation \in 0..90)

Thm_C10 ==
    \A k \in 1..Len(placed_rects) :
        placed_rects[k][3] > 0 /\ placed_rects[k][4] > 0

\* on the canvas one pixel wide, a 2x1 object was capped to the canvas and
\* placed as 1x1: its height 1 * 0.5 truncates to 0 and is raised to 1
Wit_C10 ==
    /\ hero_size = <<1, TallHeight>>
    /\ processed_images = << <<2, 1>>, <<2, 1>> >>
    /\ Len(placed_rects) = 1
    /\ placed_rects[1][3] = 1
    /\ placed_rects[1][4] = 1

(* C11: _calculate_overlap_percentage is never below 0 nor above 100, and  *)
(* it is exactly 100 when one of two rectangles with area contains the     *)
(* other, whichever of the two is the first argument.                      *)
Thm_C11 ==
    overlap_call.called =>
        LET a == overlap_call.rect1
            b == overlap_call.rect2
            pct == overlap_call.result
        IN  /\ pct[2] > 0
            /\ 0 <= pct[1]
            /\ pct[1] <= 100 * pct[2]
            /\ (Contains(a, b) \/ Contains(b, a)) => pct[1] = 100 * pct[2]

\* the function was called with the containing rectangle first and
\* returned 100
Wit_C11 ==
    /\ overlap_call.called
    /\ overlap_call.rect1 = <<0, 0, 20, 10>>
    /\ overlap_call.rect2 = <<2, 2, 3, 3>>
    /\ overlap_call.result[1] = 100 * overlap_call.result[2]

(* C12: the placement search of an object samples at most max_attempts    *)
(* positions, a run over N objects samples at most max_attempts * N        *)
(* positions, and a run that has entered its loop ends.                    *)
Thm_C12 ==
    /\ [](attempts <= max_attempts)
    /\ [](pc # "idle" => samples <= max_attempts * Len(processed_images))
    /\ (pc \in {"loop", "search"}) ~> Ended

\* a run over two objects ended after the search of the second one used
\* up all its samples: one sample for the first object, max_attempts for
\* the second, a warning and the canvas saved
Wit_C12 ==
    /\ pc = "returned"
    /\ hero_image = "saved"
    /\ Len(processed_images) = 2
    /\ warnings = 1
    /\ samples = 1 + max_attempts

(* C13: every file saved by generate_resized_files is named after the     *)
(* input path that its image was loaded from.                              *)
CE_C13 ==
    \A k \in 1..Len(resized_files) :
        resized_files[k].filename =
            output_filename(splitext(basename(resized_files[k].source))[1])

=============================================================================
